---- MODULE Spec2Model ----
(***************************************************************************)
(* Model of data/get_data_bulk.py: the rate-limited fetcher (call_api),    *)
(* the three-stage fetch/cache pipeline and the XML-to-text extraction.    *)
(*                                                                         *)
(* Three specifications share the module:                                  *)
(*   SpecRate    - call_api under @sleep_and_retry @limits                 *)
(*                 (SpecRateFair: with a fair clock and scheduler)         *)
(*   SpecExtract - the text extraction of process_individual_law_file      *)
(*   Spec        - the pipeline of __main__, run repeatedly                *)
(***************************************************************************)
EXTENDS Integers, Sequences, FiniteSets, TLC

VARIABLES
    \* ---- call_api (lines 41-45) ----
    elapsed,        \* clock() - last_reset of the limits decorator, saturated at period
    num_calls,      \* num_calls of the limits decorator
    rl_pc,          \* position of the caller inside call_api
    sleep_left,     \* remaining time of time.sleep(period_remaining)
    gets,           \* requests.get calls issued by the current call_api invocation
    slept,          \* sleeps taken by the current call_api invocation
    done_ages,      \* age -> number of requests.get calls completed that long ago (< period)
    \* ---- text extraction of process_individual_law_file (lines 139-210) ----
    x_doc,          \* the parsed document: its elements in document order
    x_pc,           \* "parsed" before the extraction, "written" after f.write(text)
    x_collected,    \* inner_texts as collected by the loop of lines 181-191
    x_from,         \* for each entry of x_collected, the index of the element it came from
    x_inner_texts,  \* inner_texts after the truncation of lines 195-201
    x_text,         \* the text written to data/processed
    \* ---- the pipeline of __main__ (lines 48-137, 213-225) ----
    bulk,           \* data/raw/bulk/: congress -> content of plaw_{congress}.json
    individual,     \* data/raw/individual/: file name -> content
    processed,      \* data/processed/: file name -> text
    pc,             \* the function __main__ is in, "done" or "raised"
    congress,       \* loop variable of get_bulk_public_laws
    bulk_plaw_files,        \* get_individual_laws: the files of the listing still to process
    law_index,      \* process_bulk_plaw_file: 0 before json.load, else the entry to process
    individual_law_files,   \* process_individual_laws: the files of the listing still to process
    finished,       \* the functions of __main__ that returned in this run
    last,           \* the step taken last
    run,            \* number of the current run of the script
    up_bulk,        \* upstream: congress -> response, as far as requested
    up_docs,        \* upstream: link -> response, as far as requested
    called,         \* the URLs call_api was called with in this run
    called_prev,    \* the URLs call_api was called with in the previous run
    snap            \* the three directories and the outcome at the end of the previous run

rateVars == <<elapsed, num_calls, rl_pc, sleep_left, gets, slept, done_ages>>

extractVars == <<x_doc, x_pc, x_collected, x_from, x_inner_texts, x_text>>

pipeVars == <<bulk, individual, processed, pc, congress, bulk_plaw_files, law_index,
              individual_law_files, finished, last, run, up_bulk, up_docs, called,
              called_prev, snap>>

vars == <<rateVars, extractVars, pipeVars>>

(***************************************************************************)
(* Bounds.  calls and period stand for calls=1000 and period=3600 seconds  *)
(* of line 42, scaled down; one tick of the clock is 3600/period seconds.  *)
(***************************************************************************)
calls == 2
period == 3
\* Largest number of elements of a document.
MaxElems == 3
\* Largest number of entries of a manifest.
MaxEntries == 2
\* Number of runs of the script.
MaxRuns == 2

Min(a, b) == IF a < b THEN a ELSE b
Max(a, b) == IF a < b THEN b ELSE a

(***************************************************************************)
(* call_api: @sleep_and_retry @limits(calls, period) around requests.get.  *)
(* limits keeps one fixed window: the counter is reset by the first call   *)
(* made once period has elapsed since last_reset; the call that exceeds    *)
(* calls raises RateLimitException(period_remaining), which                *)
(* sleep_and_retry answers by sleeping period_remaining and retrying.      *)
(***************************************************************************)
clamped_calls == Max(1, calls)

period_remaining == period - elapsed

\* Outcome of RateLimitException without the sleep_and_retry decorator.
OnRateLimitRaise == "raised"

\* sleep_and_retry: the exception is caught and the call sleeps.
OnRateLimit == "sleep"

RECURSIVE SumAges(_, _)
SumAges(f, a) == IF a < 0 THEN 0 ELSE f[a] + SumAges(f, a - 1)

\* Number of requests.get calls completed within the last period time units.
CompletedInWindow == SumAges(done_ages, period - 1)

(***************************************************************************)
(* Text extraction (process_individual_law_file, lines 139-210).           *)
(* A parsed document is the sequence of its elements in document order     *)
(* (the order of root.iter(), the root first); an element has its tag in   *)
(* ElementTree's "{namespace}local" form, its depth in the tree and its    *)
(* text: <<>> for None, <<s>> for the string s.                            *)
(***************************************************************************)
ignore_sections ==
    { "actionDescription", "toc", "designator", "label", "referenceItem",
      "num", "citableAs", "approvedDate", "publisher", "creator", "format",
      "language", "rights", "congress", "docNumber", "ref", "committee",
      "type", "page", "processedBy", "processedDate", "publicPrivate",
      "endMarker" }

prefixes ==
    { "{http://schemas.gpo.gov/xml/uslm}",
      "{http://purl.org/dc/elements/1.1/}",
      "{http://purl.org/dc/terms/}" }

\* A set that holds the bare names instead of the prefixed ones.
ignore_sections_bare == ignore_sections

ignore_sections_prefixed == { p \o s : p \in prefixes, s \in ignore_sections }

\* Tags and texts the documents are built from.
Tags ==
    { "{http://schemas.gpo.gov/xml/uslm}num",
      "{http://purl.org/dc/elements/1.1/}publisher",
      "{http://schemas.gpo.gov/xml/uslm}p",
      "{http://www.w3.org/1999/xhtml}num" }

Strings ==
    { "  ", "SEC. 1.", "LEGISLATIVE HISTORY", "Legislative History",
      " LEGISLATIVE HISTORY " }

Texts == { <<>> } \cup { <<s>> : s \in Strings }

\* str.strip() and str.upper() on the strings above.
Strip(s) ==
    CASE s = "  " -> ""
      [] s = " LEGISLATIVE HISTORY " -> "LEGISLATIVE HISTORY"
      [] OTHER -> s

Upper(s) ==
    CASE s = "Legislative History" -> "LEGISLATIVE HISTORY"
      [] OTHER -> s

\* Document order of a tree: the root alone has depth 0, and an element is
\* at most one level below the element before it.
WellNested(depths) ==
    /\ depths[1] = 0
    /\ \A i \in 2..Len(depths) : depths[i] >= 1 /\ depths[i] <= depths[i - 1] + 1

Shapes(n) == { depths \in [1..n -> 0..(n - 1)] : WellNested(depths) }

\* The text that follows the end tag of every element below the root.
TailText == "tail text"

\* The document of n elements with the given depths, tags and texts; tail
\* is the element's tail, None for the root.
MakeDoc(n, depths, tags, texts) ==
    [i \in 1..n |-> [tag |-> tags[i], depth |-> depths[i], text |-> texts[i],
                     tail |-> IF depths[i] = 0 THEN <<>> ELSE <<TailText>>]]

\* element.tag in ignore_sections_prefixed (line 182)
Ignored(tag) == tag \in ignore_sections_prefixed

\* Lines 180-191: the indices of the elements whose text is collected.
RECURSIVE CollectFrom(_, _)
CollectFrom(d, i) ==
    IF i > Len(d) THEN <<>>
    ELSE IF Ignored(d[i].tag) THEN CollectFrom(d, i + 1)
    ELSE IF d[i].text # <<>> /\ d[i].text[1] # "" /\ Strip(d[i].text[1]) # ""
         THEN <<i>> \o CollectFrom(d, i + 1)
         ELSE CollectFrom(d, i + 1)

\* A loop that appends element.tail after element.text.
TextsOfWithTail(d, idx) ==
    [k \in 1..Len(idx) |->
        IF d[idx[k]].tail = <<>> THEN d[idx[k]].text[1]
        ELSE d[idx[k]].text[1] \o d[idx[k]].tail[1]]

\* Line 191: inner_texts.append(element.text); element.tail is not read.
TextsOf(d, idx) == [k \in 1..Len(idx) |-> d[idx[k]].text[1]]

\* Lines 195-199: the 0-based index of the first entry that upper-cases to
\* "LEGISLATIVE HISTORY"; -1 stands for None.
RECURSIVE FindLegislativeHistory(_, _)
FindLegislativeHistory(texts, i) ==
    IF i >= Len(texts) THEN -1
    ELSE IF Upper(texts[i + 1]) = "LEGISLATIVE HISTORY" THEN i
    ELSE FindLegislativeHistory(texts, i + 1)

\* A guard that tells index 0 from None (is not None).
TruthyNotNone(index) == index # -1

\* Line 200: "if legislative_history_index:" is false for None and for 0.
Truthy(index) == index # -1 /\ index # 0

\* A truncation that keeps the marker entry.
TruncateInclusive(texts) ==
    LET legislative_history_index == FindLegislativeHistory(texts, 0)
    IN IF Truthy(legislative_history_index)
       THEN SubSeq(texts, 1, legislative_history_index + 1)
       ELSE texts

\* Lines 195-201
Truncate(texts) ==
    LET legislative_history_index == FindLegislativeHistory(texts, 0)
    IN IF Truthy(legislative_history_index)
       THEN SubSeq(texts, 1, legislative_history_index)
       ELSE texts

\* Line 203: "\n".join(inner_texts)
RECURSIVE Join(_)
Join(texts) ==
    IF Len(texts) = 0 THEN ""
    ELSE IF Len(texts) = 1 THEN texts[1]
    ELSE texts[1] \o "\n" \o Join(Tail(texts))

\* The text process_individual_law_file writes for a parsed document.
ExtractedText(d) == Join(Truncate(TextsOf(d, CollectFrom(d, 1))))

\* The extraction variables while another specification runs.
ExtractIdle ==
    /\ x_doc = <<>>
    /\ x_pc = "off"
    /\ x_collected = <<>>
    /\ x_from = <<>>
    /\ x_inner_texts = <<>>
    /\ x_text = ""

ExtractStart ==
    /\ \E n \in 1..MaxElems :
          \E depths \in Shapes(n), tags \in [1..n -> Tags], texts \in [1..n -> Texts] :
              x_doc = MakeDoc(n, depths, tags, texts)
    /\ x_pc = "parsed"
    /\ x_collected = <<>>
    /\ x_from = <<>>
    /\ x_inner_texts = <<>>
    /\ x_text = ""

\* Lines 180-210 on the parsed document.
ExtractAndWrite ==
    /\ x_pc = "parsed"
    /\ x_from' = CollectFrom(x_doc, 1)
    /\ x_collected' = TextsOf(x_doc, x_from')
    /\ x_inner_texts' = Truncate(x_collected')
    /\ x_text' = Join(x_inner_texts')
    /\ x_pc' = "written"
    /\ UNCHANGED x_doc
    /\ UNCHANGED <<rateVars, pipeVars>>

\* The limiter as the decorators construct it at import.
RateStart ==
    /\ elapsed = 0
    /\ num_calls = 0
    /\ rl_pc = "idle"
    /\ sleep_left = 0
    /\ gets = 0
    /\ slept = 0
    /\ done_ages = [a \in 0..(period - 1) |-> 0]

\* The caller enters call_api (the wrapper of sleep_and_retry).
CallApi ==
    /\ rl_pc = "idle"
    /\ rl_pc' = "limits"
    /\ gets' = 0
    /\ slept' = 0
    /\ UNCHANGED <<elapsed, num_calls, sleep_left, done_ages>>
    /\ UNCHANGED <<extractVars, pipeVars>>

\* The wrapper of limits: reset when the window has elapsed, count the
\* attempt, raise when the count exceeds the budget, else call requests.get.
Limits ==
    /\ rl_pc = "limits"
    /\ LET reset == period_remaining <= 0
           n == (IF reset THEN 0 ELSE num_calls) + 1
       IN /\ num_calls' = n
          /\ elapsed' = IF reset THEN 0 ELSE elapsed
          /\ IF n > clamped_calls
             THEN /\ rl_pc' = OnRateLimit
                  /\ sleep_left' = period_remaining
                  /\ slept' = slept + 1
                  /\ gets' = gets
             ELSE /\ rl_pc' = "get"
                  /\ gets' = gets + 1
                  /\ UNCHANGED <<sleep_left, slept>>
    /\ UNCHANGED done_ages
    /\ UNCHANGED <<extractVars, pipeVars>>

\* requests.get returns its response; call_api returns it to the caller.
GetReturnsStep ==
    /\ rl_pc = "get"
    /\ rl_pc' = "idle"
    /\ done_ages' = [done_ages EXCEPT ![0] = @ + 1]
    /\ UNCHANGED <<elapsed, num_calls, sleep_left, gets, slept>>

GetReturns == GetReturnsStep /\ UNCHANGED <<extractVars, pipeVars>>

\* time.sleep(period_remaining) is over: the while loop retries the call.
Wake ==
    /\ rl_pc = "sleep"
    /\ sleep_left = 0
    /\ rl_pc' = "limits"
    /\ UNCHANGED <<elapsed, num_calls, sleep_left, gets, slept, done_ages>>
    /\ UNCHANGED <<extractVars, pipeVars>>

\* The clock advances by one unit.
Tick ==
    /\ elapsed' = Min(elapsed + 1, period)
    /\ sleep_left' = Max(0, sleep_left - 1)
    /\ done_ages' = [a \in 0..(period - 1) |-> IF a = 0 THEN 0 ELSE done_ages[a - 1]]
    /\ UNCHANGED <<num_calls, rl_pc, gets, slept>>
    /\ UNCHANGED <<extractVars, pipeVars>>

(***************************************************************************)
(* The pipeline.  The upstream is a function from URL to response,         *)
(* revealed request by request: a URL requested again is answered as       *)
(* before, except that a failure may be over when the script runs again.   *)
(***************************************************************************)
\* range(113, 119), line 66
first_congress == 113
stop_congress == 119
congresses == first_congress..(stop_congress - 1)

\* The congress whose upstream manifest may list files; the manifests of the
\* others are {"files": []}.
BusyCongresses == {115}

\* Manifest entries: "name" and "link" of a law_info.
Entries ==
    { [name |-> "a.xml", link |-> "https://govinfo/a.xml"],
      [name |-> "b.xml", link |-> "https://govinfo/b.xml"],
      [name |-> "report.pdf", link |-> "https://govinfo/report.pdf"] }

\* The order of os.listdir, which depends on the directory alone.
NameOrder == <<"a.xml", "b.xml", "report.pdf">>

\* A link test that lets every link through.
EndsWithXmlAlways(link) == TRUE

\* xml_url.endswith(".xml"), line 107
EndsWithXml(link) == link \in {"https://govinfo/a.xml", "https://govinfo/b.xml"}

\* f"data/processed/{individual_law_file}".replace(".xml", ".txt"), line 208
TxtName(individual_law_file) ==
    CASE individual_law_file = "a.xml" -> "a.txt"
      [] individual_law_file = "b.xml" -> "b.txt"
      [] OTHER -> individual_law_file

\* Content of a manifest file: whether json.load and ["files"] succeed on
\* it, and the entries of "files".
EntryLists == UNION { [1..n -> Entries] : n \in 0..MaxEntries }
EmptyManifest == [json_ok |-> TRUE, files |-> <<>>]
NotJson == [json_ok |-> FALSE, files |-> <<>>]
ManifestTexts == { NotJson } \cup { [json_ok |-> TRUE, files |-> l] : l \in EntryLists }

\* Content of a raw document: whether ET.parse succeeds on it, and the
\* elements of the parsed tree.
NotXml == [wf |-> FALSE, elems |-> <<>>]
SomeP == "{http://schemas.gpo.gov/xml/uslm}p"
SomeNum == "{http://schemas.gpo.gov/xml/uslm}num"
LawA ==
    [wf |-> TRUE,
     elems |-> MakeDoc(3, <<0, 1, 1>>, <<SomeP, SomeNum, SomeP>>,
                       <<<<"SEC. 1.">>, <<"SEC. 1.">>, <<"Legislative History">>>>)]
LawB ==
    [wf |-> TRUE,
     elems |-> MakeDoc(2, <<0, 1>>, <<SomeP, SomeP>>,
                       <<<<"LEGISLATIVE HISTORY">>, <<"SEC. 1.">>>>)]
DocTexts == { NotXml, LawA, LawB }

\* The answers of the upstream to a first request.
BulkAnswers(c) ==
    { [status |-> 404, text |-> NotJson] } \cup
    { [status |-> 200, text |-> t] :
        t \in IF c \in BusyCongresses THEN ManifestTexts ELSE { EmptyManifest } }

DocAnswers ==
    { [status |-> 404, text |-> NotXml] } \cup { [status |-> 200, text |-> t] : t \in DocTexts }

\* A status test that takes every response for a success.
StatusOkAlways(response) == TRUE

\* response.status_code == 200, lines 78 and 114
StatusOk(response) == response.status = 200

\* An existence test that never finds the manifest.
check_if_raw_data_exists_never(dir, c) == FALSE

\* check_if_raw_data_exists, lines 58-59
check_if_raw_data_exists(dir, c) == c \in DOMAIN dir

\* An existence test that never finds the document.
LawExistsNever(dir, name) == FALSE

\* os.path.exists(f"{individual_law_data_dir}{name}"), line 103
LawExists(dir, name) == name \in DOMAIN dir

\* A directory without the file f.
Without(dir, f) == [g \in DOMAIN dir \ {f} |-> dir[g]]

\* A directory with content written to the file f.
WithFile(dir, f, content) == [g \in DOMAIN dir \cup {f} |-> IF g = f THEN content ELSE dir[g]]

\* os.listdir(bulk_data_dir), line 125
RECURSIVE ListBulk(_, _)
ListBulk(dir, c) ==
    IF c >= stop_congress THEN <<>>
    ELSE (IF c \in DOMAIN dir THEN <<c>> ELSE <<>>) \o ListBulk(dir, c + 1)

\* A listing that is cut after its first file.
ListIndividualOne(dir, i) ==
    LET present == { k \in i..Len(NameOrder) : NameOrder[k] \in DOMAIN dir }
    IN IF present = {} THEN <<>>
       ELSE <<NameOrder[CHOOSE k \in present : \A j \in present : k <= j]>>

\* os.listdir(individual_law_data_dir), line 216
RECURSIVE ListIndividual(_, _)
ListIndividual(dir, i) ==
    IF i > Len(NameOrder) THEN <<>>
    ELSE (IF NameOrder[i] \in DOMAIN dir THEN <<NameOrder[i]>> ELSE <<>>)
             \o ListIndividual(dir, i + 1)

\* __main__ with the last two calls exchanged.
StageAfterSwapped(stage) ==
    CASE stage = "get_bulk_public_laws" -> "process_individual_laws"
      [] stage = "process_individual_laws" -> "get_individual_laws"
      [] OTHER -> "done"

\* __main__, lines 223-225: the function called after stage returns.
StageAfter(stage) ==
    CASE stage = "get_bulk_public_laws" -> "get_individual_laws"
      [] stage = "get_individual_laws" -> "process_individual_laws"
      [] OTHER -> "done"

\* The except branch without the os.remove.
OnParseErrorKeep(dir, f) == dir

\* An except branch that removes the whole directory.
OnParseErrorWipe(dir, f) == <<>>

\* Lines 134-137: the raw file is removed.
OnParseError(dir, f) == Without(dir, f)

NoCalls == [bulk |-> {}, docs |-> {}]
NoSnap == [bulk |-> <<>>, individual |-> <<>>, processed |-> <<>>, outcome |-> "none"]

\* The directories the first run may find.
InitBulk == { <<>>, [c \in {113} |-> [json_ok |-> TRUE, files |-> <<CHOOSE e \in Entries : e.name = "b.xml">>]] }
InitIndividual == { <<>>, [f \in {"a.xml"} |-> NotXml], [f \in {"a.xml"} |-> LawB] }
InitProcessed == { <<>>, [f \in {"a.txt"} |-> "stale"] }

PipeStart ==
    /\ bulk \in InitBulk
    /\ individual \in InitIndividual
    /\ processed \in InitProcessed
    /\ pc = "get_bulk_public_laws"
    /\ congress = first_congress
    /\ bulk_plaw_files = <<>>
    /\ law_index = 0
    /\ individual_law_files = <<>>
    /\ finished = {}
    /\ last = "start"
    /\ run = 1
    /\ up_bulk = <<>>
    /\ up_docs = <<>>
    /\ called = NoCalls
    /\ called_prev = NoCalls
    /\ snap = NoSnap

\* The pipeline variables while another specification runs.
PipeIdle ==
    /\ bulk = <<>>
    /\ individual = <<>>
    /\ processed = <<>>
    /\ pc = "off"
    /\ congress = first_congress
    /\ bulk_plaw_files = <<>>
    /\ law_index = 0
    /\ individual_law_files = <<>>
    /\ finished = {}
    /\ last = "start"
    /\ run = 1
    /\ up_bulk = <<>>
    /\ up_docs = <<>>
    /\ called = NoCalls
    /\ called_prev = NoCalls
    /\ snap = NoSnap

\* get_bulk_public_laws, lines 68-73: the manifest exists, the congress is skipped.
SkipCongress ==
    /\ pc = "get_bulk_public_laws"
    /\ congress < stop_congress
    /\ check_if_raw_data_exists(bulk, congress)
    /\ congress' = congress + 1
    /\ last' = "skip_congress"
    /\ UNCHANGED <<bulk, individual, processed, pc, bulk_plaw_files, law_index,
                   individual_law_files, finished, run, up_bulk, up_docs, called,
                   called_prev, snap>>
    /\ UNCHANGED <<rateVars, extractVars>>

\* get_bulk_public_laws, lines 74-81: call_api, then save_public_laws on 200
\* and an exception on any other status.
FetchManifestStep ==
    /\ pc = "get_bulk_public_laws"
    /\ congress < stop_congress
    /\ ~ check_if_raw_data_exists(bulk, congress)
    /\ \E response \in (IF congress \in DOMAIN up_bulk
                        THEN { up_bulk[congress] } ELSE BulkAnswers(congress)) :
          /\ up_bulk' = WithFile(up_bulk, congress, response)
          /\ called' = [called EXCEPT !.bulk = @ \cup {congress}]
          /\ IF StatusOk(response)
             THEN /\ bulk' = WithFile(bulk, congress, response.text)
                  /\ congress' = congress + 1
                  /\ last' = "save_public_laws"
                  /\ pc' = pc
             ELSE /\ pc' = "raised"
                  /\ last' = "raised"
                  /\ UNCHANGED <<bulk, congress>>
    /\ UNCHANGED <<individual, processed, bulk_plaw_files, law_index,
                   individual_law_files, finished, run, up_docs, called_prev, snap>>

FetchManifest == FetchManifestStep /\ UNCHANGED <<rateVars, extractVars>>

\* The loop of the current function of __main__ is over.
LoopOver ==
    CASE pc = "get_bulk_public_laws" -> congress = stop_congress
      [] pc = "get_individual_laws" -> bulk_plaw_files = <<>> /\ law_index = 0
      [] pc = "process_individual_laws" -> individual_law_files = <<>>
      [] OTHER -> FALSE

\* __main__, lines 223-225: a function returns and the next one is called;
\* get_individual_laws and process_individual_laws start by listing their
\* directory (lines 125 and 216).
NextFunction ==
    /\ LoopOver
    /\ finished' = finished \cup {pc}
    /\ LET next == StageAfter(pc)
       IN /\ pc' = next
          /\ bulk_plaw_files' =
                IF next = "get_individual_laws" THEN ListBulk(bulk, first_congress)
                ELSE bulk_plaw_files
          /\ individual_law_files' =
                IF next = "process_individual_laws" THEN ListIndividual(individual, 1)
                ELSE individual_law_files
    /\ last' = "return"
    /\ UNCHANGED <<bulk, individual, processed, congress, law_index, run, up_bulk,
                   up_docs, called, called_prev, snap>>
    /\ UNCHANGED <<rateVars, extractVars>>

\* The manifest process_bulk_plaw_file works on.
bulk_data == bulk[Head(bulk_plaw_files)].files

\* process_bulk_plaw_file, lines 94-98: json.load and ["files"]; an
\* exception when the file is not such a JSON document.
LoadManifest ==
    /\ pc = "get_individual_laws"
    /\ bulk_plaw_files # <<>>
    /\ law_index = 0
    /\ IF bulk[Head(bulk_plaw_files)].json_ok
       THEN /\ law_index' = 1
            /\ last' = "json.load"
            /\ pc' = pc
       ELSE /\ pc' = "raised"
            /\ last' = "raised"
            /\ law_index' = law_index
    /\ UNCHANGED <<bulk, individual, processed, congress, bulk_plaw_files,
                   individual_law_files, finished, run, up_bulk, up_docs, called,
                   called_prev, snap>>
    /\ UNCHANGED <<rateVars, extractVars>>

\* process_bulk_plaw_file, lines 101-119: one iteration of the loop.
ProcessLawInfoStep ==
    /\ pc = "get_individual_laws"
    /\ bulk_plaw_files # <<>>
    /\ law_index >= 1
    /\ law_index <= Len(bulk_data)
    /\ LET law_info == bulk_data[law_index]
           name == law_info.name
           xml_url == law_info.link
       IN IF LawExists(individual, name)
          THEN /\ law_index' = law_index + 1
               /\ last' = "skip_exists"
               /\ UNCHANGED <<individual, pc, up_docs, called>>
          ELSE IF ~ EndsWithXml(xml_url)
          THEN /\ law_index' = law_index + 1
               /\ last' = "skip_not_xml"
               /\ UNCHANGED <<individual, pc, up_docs, called>>
          ELSE \E response \in (IF xml_url \in DOMAIN up_docs
                                THEN { up_docs[xml_url] } ELSE DocAnswers) :
                  /\ up_docs' = WithFile(up_docs, xml_url, response)
                  /\ called' = [called EXCEPT !.docs = @ \cup {xml_url}]
                  /\ IF StatusOk(response)
                     THEN /\ individual' = WithFile(individual, name, response.text)
                          /\ law_index' = law_index + 1
                          /\ last' = "save_law"
                          /\ pc' = pc
                     ELSE /\ pc' = "raised"
                          /\ last' = "raised"
                          /\ UNCHANGED <<individual, law_index>>
    /\ UNCHANGED <<bulk, processed, congress, bulk_plaw_files, individual_law_files,
                   finished, run, up_bulk, called_prev, snap>>

ProcessLawInfo == ProcessLawInfoStep /\ UNCHANGED <<rateVars, extractVars>>

\* process_bulk_plaw_file returns; get_individual_laws goes on to the next file.
NextManifest ==
    /\ pc = "get_individual_laws"
    /\ bulk_plaw_files # <<>>
    /\ law_index > Len(bulk_data)
    /\ bulk_plaw_files' = Tail(bulk_plaw_files)
    /\ law_index' = 0
    /\ last' = "next_manifest"
    /\ UNCHANGED <<bulk, individual, processed, pc, congress, individual_law_files,
                   finished, run, up_bulk, up_docs, called, called_prev, snap>>
    /\ UNCHANGED <<rateVars, extractVars>>

\* process_individual_laws, lines 217-218: process_individual_law_file on
\* the next file of the listing.
ProcessIndividualLawFile ==
    /\ pc = "process_individual_laws"
    /\ individual_law_files # <<>>
    /\ LET individual_law_file == Head(individual_law_files)
       IN IF ~ individual[individual_law_file].wf
          THEN /\ individual' = OnParseError(individual, individual_law_file)
               /\ processed' = processed
               /\ last' = "os.remove"
          ELSE /\ processed' = WithFile(processed, TxtName(individual_law_file),
                                        ExtractedText(individual[individual_law_file].elems))
               /\ individual' = individual
               /\ last' = "write_text"
    /\ individual_law_files' = Tail(individual_law_files)
    /\ UNCHANGED <<bulk, pc, congress, bulk_plaw_files, law_index, finished, run,
                   up_bulk, up_docs, called, called_prev, snap>>
    /\ UNCHANGED <<rateVars, extractVars>>

\* The upstream without its failed answers: a URL that failed is answered
\* afresh when it is requested again.
Answered(up) == [u \in { u \in DOMAIN up : up[u].status = 200 } |-> up[u]]

\* The script is started again after it ended; the failures of the upstream
\* may be over by then.
RunAgainStep ==
    /\ pc \in {"done", "raised"}
    /\ run < MaxRuns
    /\ run' = run + 1
    /\ snap' = [bulk |-> bulk, individual |-> individual, processed |-> processed,
                outcome |-> pc]
    /\ called_prev' = called
    /\ called' = NoCalls
    /\ pc' = "get_bulk_public_laws"
    /\ congress' = first_congress
    /\ bulk_plaw_files' = <<>>
    /\ law_index' = 0
    /\ individual_law_files' = <<>>
    /\ finished' = {}
    /\ last' = "start"
    /\ \E recovered \in BOOLEAN :
          /\ up_bulk' = IF recovered THEN Answered(up_bulk) ELSE up_bulk
          /\ up_docs' = IF recovered THEN Answered(up_docs) ELSE up_docs
    /\ UNCHANGED <<bulk, individual, processed>>

RunAgain == RunAgainStep /\ UNCHANGED <<rateVars, extractVars>>

Init == PipeStart /\ RateStart /\ ExtractIdle

Next ==
    \/ SkipCongress
    \/ FetchManifest
    \/ NextFunction
    \/ LoadManifest
    \/ ProcessLawInfo
    \/ NextManifest
    \/ ProcessIndividualLawFile
    \/ RunAgain

Spec == Init /\ [][Next]_vars

InitRate == RateStart /\ ExtractIdle /\ PipeIdle

NextRate == CallApi \/ Limits \/ GetReturns \/ Wake \/ Tick

SpecRate == InitRate /\ [][NextRate]_vars

\* The clock keeps advancing, the process keeps running, requests.get returns.
SpecRateFair ==
    /\ SpecRate
    /\ WF_vars(Tick) /\ WF_vars(Limits) /\ WF_vars(GetReturns) /\ WF_vars(Wake)

InitExtract == ExtractStart /\ RateStart /\ PipeIdle

NextExtract == ExtractAndWrite

SpecExtract == InitExtract /\ [][NextExtract]_vars

(***************************************************************************)
(* The pipeline with every call_api passing through the limiter.  Time is  *)
(* counted while the process waits, in time.sleep and in requests.get; the *)
(* statements in between take no time.                                     *)
(***************************************************************************)

\* The next statement of the run is a call of call_api (lines 76 and 112).
AtCallApi ==
    \/ /\ pc = "get_bulk_public_laws"
       /\ congress < stop_congress
       /\ ~ check_if_raw_data_exists(bulk, congress)
    \/ /\ pc = "get_individual_laws"
       /\ bulk_plaw_files # <<>>
       /\ law_index \in 1..Len(bulk_data)
       /\ ~ LawExists(individual, bulk_data[law_index].name)
       /\ EndsWithXml(bulk_data[law_index].link)

\* A statement of the run that is no call of call_api.
LocalStep ==
    /\ ~ AtCallApi
    /\ rl_pc = "idle"
    /\ \/ SkipCongress
       \/ NextFunction
       \/ LoadManifest
       \/ ProcessLawInfo
       \/ NextManifest
       \/ ProcessIndividualLawFile

\* The run enters call_api.
CallApiInRun == AtCallApi /\ CallApi

\* The clock advances while the process sleeps or waits for the response.
TickWaiting == rl_pc \in {"sleep", "get"} /\ Tick

\* call_api returns the response and the caller handles it.
ResponseHandled ==
    /\ AtCallApi
    /\ GetReturnsStep
    /\ FetchManifestStep \/ ProcessLawInfoStep
    /\ UNCHANGED extractVars

\* The script is started again: a new process, a new limiter.
RunAgainFresh ==
    /\ RunAgainStep
    /\ rl_pc = "idle"
    /\ elapsed' = 0
    /\ num_calls' = 0
    /\ sleep_left' = 0
    /\ gets' = 0
    /\ slept' = 0
    /\ done_ages' = [a \in 0..(period - 1) |-> 0]
    /\ UNCHANGED <<rl_pc, extractVars>>

\* The first run finds the three directories empty.
InitRun ==
    /\ PipeStart
    /\ bulk = <<>> /\ individual = <<>> /\ processed = <<>>
    /\ RateStart
    /\ ExtractIdle

NextRun ==
    \/ LocalStep
    \/ CallApiInRun
    \/ Limits
    \/ Wake
    \/ TickWaiting
    \/ ResponseHandled
    \/ RunAgainFresh

SpecRun == InitRun /\ [][NextRun]_vars

\* The clock keeps advancing, the process keeps running and the upstream
\* answers every request; nothing makes the script start again.
SpecRunFair ==
    /\ SpecRun
    /\ WF_vars(LocalStep) /\ WF_vars(CallApiInRun) /\ WF_vars(Limits)
    /\ WF_vars(Wake) /\ WF_vars(TickWaiting) /\ WF_vars(ResponseHandled)

(***************************************************************************)
(* Claims                                                                  *)
(***************************************************************************)

\* C1: in every rolling window of period time units at most calls
\* invocations of requests.get complete.
C1_RollingWindow == CompletedInWindow <= calls

\* C2: the call made when the budget of the current window is used up is
\* never rejected; it is delayed and then issues requests.get exactly once
\* and returns.
C2_DelayedNotRejected ==
    /\ [](rl_pc # "raised")
    /\ [](rl_pc = "idle" => gets <= 1)
    /\ [](rl_pc = "sleep" => num_calls > calls)
    /\ (rl_pc = "limits" /\ num_calls >= calls) ~> (rl_pc = "idle" /\ gets = 1)
    /\ (rl_pc = "sleep") ~> (rl_pc = "idle" /\ gets = 1 /\ slept >= 1)

C2_Witness == rl_pc = "idle" /\ gets = 1 /\ slept >= 1

\* The element at index i of document d lies inside an element with an
\* ignored tag.
InsideIgnored(d, i) ==
    \E j \in 1..(i - 1) :
        /\ Ignored(d[j].tag)
        /\ d[j].depth < d[i].depth
        /\ \A k \in (j + 1)..i : d[k].depth > d[j].depth

\* The elements whose text reached the written output.
WrittenFrom == { x_from[k] : k \in 1..Len(x_inner_texts) }

\* C7 as stated: neither the text of an element with an ignored tag nor the
\* text of an element nested within one reaches the written text.
C7_NoIgnoredNorNested ==
    x_pc = "written" =>
        \A i \in WrittenFrom :
            ~ Ignored(x_doc[i].tag) /\ ~ InsideIgnored(x_doc, i)

\* C7 amended: the own text of an element whose tag is one of the ignored
\* names under one of the three prefixes never reaches the written text.
C7_NoIgnoredOwnText ==
    x_pc = "written" =>
        \A i \in WrittenFrom :
            \A p \in prefixes : \A n \in ignore_sections : x_doc[i].tag # p \o n

C7_Witness ==
    /\ x_pc = "written"
    /\ Len(x_inner_texts) >= 1
    /\ \E i \in 1..Len(x_doc) :
          /\ Ignored(x_doc[i].tag)
          /\ x_doc[i].text = <<"SEC. 1.">>
          /\ \E j \in WrittenFrom : InsideIgnored(x_doc, j)

\* The entry at 1-based position i equals "LEGISLATIVE HISTORY" once upper-cased.
IsMarker(texts, i) == Upper(texts[i]) = "LEGISLATIVE HISTORY"

C3_Idempotent ==
    (run >= 2 /\ pc = "done" /\ snap.outcome = "done")
        => /\ bulk = snap.bulk
           /\ individual = snap.individual
           /\ processed = snap.processed

\* C4: after a run that completed, the next run calls call_api for no
\* manifest and for no link that the completed run called it for.
C4_NoDuplicateFetches ==
    (run >= 2 /\ snap.outcome = "done")
        => /\ called.bulk \cap called_prev.bulk = {}
           /\ called.docs \cap called_prev.docs = {}

\* C5: an entry whose link does not end in ".xml" causes no call_api call
\* and no file in the individual-document cache, and the loop goes on to
\* the next entry.
C5_NonXmlSkipped ==
    [][(/\ pc = "get_individual_laws"
        /\ bulk_plaw_files # <<>>
        /\ law_index \in 1..Len(bulk_data)
        /\ bulk_data[law_index].link = "https://govinfo/report.pdf")
       => (/\ called' = called
           /\ individual' = individual
           /\ pc' = "get_individual_laws"
           /\ bulk_plaw_files' = bulk_plaw_files
           /\ law_index' = law_index + 1)]_vars

C5_Witness ==
    /\ pc = "get_individual_laws"
    /\ bulk_plaw_files # <<>>
    /\ law_index = 3
    /\ last = "save_law"
    /\ bulk_data[1].link = "https://govinfo/report.pdf"
    /\ "report.pdf" \notin DOMAIN individual

\* C6: a raw document that fails to parse is removed from the
\* individual-document cache, no text is written for it, nothing is raised
\* and process_individual_laws goes on with the rest of its listing.
C6_MalformedRemoved ==
    [][(/\ pc = "process_individual_laws"
        /\ individual_law_files # <<>>
        /\ ~ individual[Head(individual_law_files)].wf)
       => (/\ Head(individual_law_files) \notin DOMAIN individual'
           /\ \A f \in DOMAIN individual \ {Head(individual_law_files)} :
                 f \in DOMAIN individual' /\ individual'[f] = individual[f]
           /\ processed' = processed
           /\ pc' = "process_individual_laws"
           /\ individual_law_files' = Tail(individual_law_files))]_vars

C6_Witness ==
    /\ pc = "process_individual_laws"
    /\ last = "os.remove"
    /\ individual_law_files # <<>>
    /\ "a.xml" \notin DOMAIN individual
    /\ "a.txt" \notin DOMAIN processed

\* A file of the directory new is absent from old or differs from it.
Written(old, new) == \E f \in DOMAIN new : f \notin DOMAIN old \/ new[f] # old[f]

\* A file of the directory old is absent from new.
Removed(old, new) == \E f \in DOMAIN old : f \notin DOMAIN new

\* C10: within a run, no individual document is fetched or written before
\* the loop over the congresses 113..118 is over, and no text is written and
\* no raw document deleted before the loop over the cached manifests is over.
C10_StageOrder ==
    [][run' = run =>
        /\ (called'.docs # called.docs \/ Written(individual, individual') \/ last' = "save_law")
              => ("get_bulk_public_laws" \in finished /\ congress = stop_congress)
        /\ (Written(processed, processed') \/ Removed(individual, individual')
                \/ last' \in {"write_text", "os.remove"})
              => (/\ "get_individual_laws" \in finished
                  /\ bulk_plaw_files = <<>>
                  /\ law_index = 0)]_vars

C10_Witness ==
    /\ pc = "process_individual_laws"
    /\ last = "write_text"
    /\ called.bulk = congresses
    /\ called.docs # {}

\* The step requests a URL and the answer is not a 200.
FailedFetch ==
    \/ \E c \in called'.bulk \ called.bulk : up_bulk'[c].status # 200
    \/ \E l \in called'.docs \ called.docs : up_docs'[l].status # 200

\* C11: a fetch of a manifest or of a document that is answered with a
\* status other than 200 ends the run with the exception and leaves the
\* three directories as they were; after the exception nothing is fetched,
\* written or deleted and no function of __main__ is started in that run.
C11_FailFast ==
    [][/\ FailedFetch =>
            /\ pc' = "raised"
            /\ finished' = finished
            /\ UNCHANGED <<bulk, individual, processed>>
       /\ (pc = "raised" /\ run' = run) =>
            UNCHANGED <<pc, finished, called, bulk, individual, processed>>]_vars

C11_Witness ==
    /\ pc = "raised"
    /\ last = "raised"
    /\ \E l \in called.docs : up_docs[l].status # 200
    /\ \E l \in called.docs : up_docs[l].status = 200
    /\ DOMAIN individual # {}
    /\ DOMAIN bulk # {}

\* The manifests and the documents the previous run fetched and left in
\* the caches when it ended.
PersistedManifests == called_prev.bulk \cap DOMAIN snap.bulk
PersistedLaws == { e \in Entries : e.link \in called_prev.docs /\ e.name \in DOMAIN snap.individual }

\* C12: in the run after a run that ended with the exception, no manifest
\* and no document the ended run had persisted is requested again or
\* written again, and whatever is requested was missing from the caches
\* when the run started.
C12_ResumeSkipsPersisted ==
    (run >= 2 /\ snap.outcome = "raised") =>
        /\ \A c \in PersistedManifests :
              /\ c \notin called.bulk
              /\ c \in DOMAIN bulk
              /\ bulk[c] = snap.bulk[c]
        /\ \A e \in PersistedLaws :
              /\ e.link \notin called.docs
              /\ e.name \in DOMAIN individual => individual[e.name] = snap.individual[e.name]
        /\ \A c \in called.bulk : c \notin DOMAIN snap.bulk
        /\ \A e \in Entries : e.link \in called.docs => e.name \notin DOMAIN snap.individual

C12_Witness ==
    /\ run >= 2
    /\ snap.outcome = "raised"
    /\ PersistedManifests # {}
    /\ PersistedLaws # {}
    /\ last = "save_law"
    /\ \E e \in PersistedLaws : e.name \in DOMAIN individual

\* The file process_individual_laws works on.
CurrentLawFile == Head(individual_law_files)

\* C13 as stated: a function of __main__ changes no directory but its own
\* destination; process_individual_laws leaves the individual cache as it is.
C13_OwnDirectoryOnly ==
    [][/\ pc = "get_bulk_public_laws" => UNCHANGED <<individual, processed>>
       /\ pc = "get_individual_laws" => UNCHANGED <<bulk, processed>>
       /\ pc = "process_individual_laws" => UNCHANGED <<bulk, individual>>]_vars

\* C13: get_bulk_public_laws changes no directory but the manifest cache
\* and get_individual_laws none but the individual cache;
\* process_individual_laws never changes the manifest cache and never
\* creates or modifies a file of the individual cache, but it deletes from
\* the individual cache the file it works on when that file does not parse,
\* and no other file.
C13_OwnDirectoryButRemove ==
    [][/\ pc = "get_bulk_public_laws" => UNCHANGED <<individual, processed>>
       /\ pc = "get_individual_laws" => UNCHANGED <<bulk, processed>>
       /\ pc = "process_individual_laws" =>
            /\ bulk' = bulk
            /\ ~ Written(individual, individual')
            /\ \A f \in DOMAIN individual \ DOMAIN individual' :
                  f = CurrentLawFile /\ ~ individual[f].wf
            /\ (individual_law_files # <<>> /\ ~ individual[CurrentLawFile].wf)
                  => CurrentLawFile \notin DOMAIN individual']_vars

C13_Witness ==
    /\ pc = "process_individual_laws"
    /\ last = "os.remove"
    /\ DOMAIN individual # {}
    /\ \E l \in called.docs : up_docs[l].text = NotXml /\ up_docs[l].status = 200
    /\ \E e \in Entries : e.link \in called.docs /\ e.name \notin DOMAIN individual

\* No file that is in the directory before and after the step differs.
Kept(old, new) == \A f \in DOMAIN old \cap DOMAIN new : new[f] = old[f]

\* The step requests no manifest and no document that is in its cache.
NoFetchOfCached ==
    /\ \A c \in called'.bulk \ called.bulk : c \notin DOMAIN bulk
    /\ \A e \in Entries : e.link \in called'.docs \ called.docs => e.name \notin DOMAIN individual

\* C14 as stated: a manifest, a raw document and an extracted text that
\* exist are each skipped: not fetched, and not written by any step.
C14_AllThreeSkipExisting ==
    [][/\ NoFetchOfCached
       /\ Kept(bulk, bulk')
       /\ Kept(individual, individual')
       /\ Kept(processed, processed')
       /\ (run' = run /\ last' = "write_text") =>
              TxtName(CurrentLawFile) \notin DOMAIN processed]_vars

\* C14: a manifest and a raw document that exist are skipped, not fetched
\* and not written; process_individual_laws has no such check and writes
\* the text of every raw document that parses, over the text file that may
\* exist.
C14_TwoSkipExistingTextRewritten ==
    [][/\ NoFetchOfCached
       /\ Kept(bulk, bulk')
       /\ Kept(individual, individual')
       /\ (/\ pc = "process_individual_laws"
           /\ individual_law_files # <<>>
           /\ individual[CurrentLawFile].wf) =>
              /\ last' = "write_text"
              /\ TxtName(CurrentLawFile) \in DOMAIN processed'
              /\ processed'[TxtName(CurrentLawFile)] =
                    ExtractedText(individual[CurrentLawFile].elems)]_vars

C14_Witness ==
    /\ run >= 2
    /\ pc = "process_individual_laws"
    /\ last = "write_text"
    /\ DOMAIN individual = {"a.xml"}
    /\ "a.txt" \in DOMAIN snap.processed
    /\ "a.txt" \in DOMAIN processed
    /\ "a.xml" \in DOMAIN snap.individual
    /\ 113 \in DOMAIN snap.bulk

\* The elements of the parsed document, the root first, whose tag is not
\* excluded and whose text is present and not only whitespace.
Selected ==
    { i \in 1..Len(x_doc) :
        /\ x_doc[i].tag \notin ignore_sections_prefixed
        /\ x_doc[i].text # <<>>
        /\ Strip(x_doc[i].text[1]) # "" }

\* C15: the collected texts are, in document order over the root and
\* everything below it, the direct texts of exactly the elements whose own
\* tag is not excluded and whose text is present and not only whitespace,
\* whatever element they are nested in; no tail is among them.
C15_CollectedInDocumentOrder ==
    x_pc = "written" =>
        /\ Len(x_from) = Cardinality(Selected)
        /\ { x_from[k] : k \in 1..Len(x_from) } = Selected
        /\ \A k \in 1..(Len(x_from) - 1) : x_from[k] < x_from[k + 1]
        /\ Len(x_collected) = Len(x_from)
        /\ \A k \in 1..Len(x_from) : x_collected[k] = x_doc[x_from[k]].text[1]
        /\ \A k \in 1..Len(x_collected) : \A i \in 1..Len(x_doc) :
              x_doc[i].tail # <<>> => x_collected[k] # x_doc[i].tail[1]

C15_Witness ==
    /\ x_pc = "written"
    /\ Len(x_doc) = 3
    /\ x_doc[2].depth = 1
    /\ x_doc[3].depth = 2
    /\ x_doc[2].tag \in ignore_sections_prefixed
    /\ x_doc[2].text = <<"SEC. 1.">>
    /\ x_doc[1].text = <<"Legislative History">>
    /\ x_doc[1].tag \notin ignore_sections_prefixed
    /\ x_doc[3].tail = <<TailText>>
    /\ x_from = <<1, 3>>
    /\ x_collected = <<"Legislative History", "SEC. 1.">>

\* The entries whose document the previous run saved and then removed
\* because it did not parse.
RemovedLaws ==
    { e \in Entries :
        /\ e.link \in called_prev.docs
        /\ e.link \in DOMAIN up_docs
        /\ up_docs[e.link].status = 200
        /\ e.name \notin DOMAIN snap.individual }

\* C16: a document that process_individual_laws removed in the previous
\* run is not requested in this run, and no file of its name is in the
\* individual cache again.
C16_RemovedStaysAbsent ==
    run >= 2 =>
        \A e \in RemovedLaws : e.link \notin called.docs /\ e.name \notin DOMAIN individual

\* C17: every run ends: it reaches the end of process_individual_laws or it
\* ends with the exception; in particular a call_api that sleeps in the
\* limiter issues its request.
C17_RunTerminates ==
    /\ (pc \notin {"done", "raised"}) ~> (pc \in {"done", "raised"})
    /\ (rl_pc = "sleep") ~> (rl_pc = "get")

C17_Witness ==
    /\ pc = "done"
    /\ Cardinality(called.bulk) > calls
    /\ called.docs # {}
    /\ last = "return"
    /\ num_calls >= 1

\* C18: when a run has returned from process_individual_laws, every file of
\* the individual cache parses and its text file holds the extraction of
\* the file's content, and no document that the run fetched with a body
\* that does not parse is in the cache.
C18_CachesConsistentAtEnd ==
    pc = "done" =>
        /\ \A f \in DOMAIN individual :
              /\ individual[f].wf
              /\ TxtName(f) \in DOMAIN processed
              /\ processed[TxtName(f)] = ExtractedText(individual[f].elems)
        /\ \A e \in Entries :
              (/\ e.link \in called.docs
               /\ up_docs[e.link].status = 200
               /\ ~ up_docs[e.link].text.wf) => e.name \notin DOMAIN individual

C18_Witness ==
    /\ pc = "done"
    /\ DOMAIN individual = {"a.xml"}
    /\ "a.txt" \in DOMAIN processed
    /\ processed["a.txt"] # "stale"
    /\ \E e \in Entries :
          /\ e.name = "b.xml"
          /\ e.link \in called.docs
          /\ ~ up_docs[e.link].text.wf

\* A manifest of the cache on which json.load or ["files"] fails.
BadManifests == { c \in DOMAIN bulk : ~ bulk[c].json_ok }

\* No step deletes, changes or requests again a manifest of the cache.
ManifestsFrozen ==
    [][/\ \A c \in DOMAIN bulk : c \in DOMAIN bulk' /\ bulk'[c] = bulk[c]
       /\ \A c \in DOMAIN bulk : c \notin called'.bulk \ called.bulk]_vars

\* C19 as stated: no manifest of the cache is ever deleted, changed or
\* requested again, and every run that starts with a manifest in the cache
\* that get_individual_laws cannot load ends with the exception raised in
\* get_individual_laws on that manifest.
C19_EveryLaterRunAbortsAtManifest ==
    /\ ManifestsFrozen
    /\ [](\A c \in DOMAIN snap.bulk :
            (~ snap.bulk[c].json_ok /\ pc \in {"done", "raised"}) =>
                /\ pc = "raised"
                /\ "get_bulk_public_laws" \in finished
                /\ bulk_plaw_files # <<>>
                /\ Head(bulk_plaw_files) = c)

\* C19: no manifest of the cache is ever deleted, changed or requested
\* again; while the cache holds a manifest that get_individual_laws cannot
\* load, no run gets past it: a run that comes to it raises the exception
\* there, so no run returns from get_individual_laws, none starts
\* process_individual_laws, and the manifest stays as it is.
C19_NoRunPastBadManifest ==
    /\ ManifestsFrozen
    /\ [](BadManifests # {} =>
            /\ "get_individual_laws" \notin finished
            /\ pc \notin {"process_individual_laws", "done"})
    /\ [][(/\ pc = "get_individual_laws"
           /\ bulk_plaw_files # <<>>
           /\ law_index = 0
           /\ Head(bulk_plaw_files) \in BadManifests) =>
              pc' = "raised" /\ UNCHANGED <<bulk, individual, processed>>]_vars

C19_Witness ==
    /\ run >= 2
    /\ pc = "raised"
    /\ "get_bulk_public_laws" \in finished
    /\ BadManifests # {}
    /\ \E c \in BadManifests : c \in DOMAIN snap.bulk /\ snap.bulk[c] = bulk[c]
    /\ bulk_plaw_files # <<>>
    /\ Head(bulk_plaw_files) \in BadManifests
    /\ snap.outcome = "raised"

====
